---- MODULE Spec2Model ----
(***************************************************************************)
(* promiseTuple (src/index.ts): wraps a promise and returns a promise of a *)
(* tuple [error, result].  The model follows the promise machinery the     *)
(* function is written with: promise.then(h1).catch(h2) inside an async    *)
(* function, with the reactions run as jobs of the FIFO microtask queue.   *)
(***************************************************************************)
EXTENDS Integers, Sequences, FiniteSets, TLC

\* Number of promiseTuple invocations that may be in flight together.
NumCalls == 2

Calls == 1 .. NumCalls

(***************************************************************************)
(* JavaScript values.  Every value is a record of the same shape, so that  *)
(* any two values can be compared: kind is what typeof / Array.isArray     *)
(* tell apart, id is the identity (or the primitive's value), elems the    *)
(* elements of an array.                                                   *)
(***************************************************************************)
Val(kind, id) == [kind |-> kind, id |-> id, elems |-> <<>>]

Undefined == Val("undefined", "undefined")

Tuple(a, b) == [kind |-> "array", id |-> "tuple", elems |-> <<a, b>>]

\* Values the input promise is fulfilled with in the tests.
SuccessValues ==
    { Undefined, Val("null", "null"), Val("number", "0"), Val("string", ""),
      Val("boolean", "false"), Val("string", "success"), Val("object", "data") }

\* Values the input promise is rejected with in the tests.
FailureValues ==
    { Val("error", "testError"), Val("object", "customError"),
      Val("string", "string error"), Val("number", "42"), Undefined }

\* What a callback throws, when it throws.
SuccessThrown == Val("error", "x")
FailureThrown == Val("error", "y")

\* A callback argument: omitted, or a function that returns or throws.
Omitted == [kind |-> "omitted", val |-> Undefined]
Returns(v) == [kind |-> "returns", val |-> v]
Throws(v) == [kind |-> "throws", val |-> v]

SuccessCallbacks ==
    { Omitted, Returns(Undefined), Returns(Val("number", "1")), Throws(SuccessThrown) }
FailureCallbacks ==
    { Omitted, Returns(Undefined), Returns(Val("number", "1")), Throws(FailureThrown) }

\* The callbacks of the concurrent runs: omitted, or returning normally.
NormalCallbacks == { Omitted, Returns(Undefined) }

(***************************************************************************)
(* Promises.                                                               *)
(***************************************************************************)
Pending == [state |-> "pending", value |-> Undefined]
Fulfilled(v) == [state |-> "fulfilled", value |-> v]
Rejected(r) == [state |-> "rejected", value |-> r]

Settlements ==
    { Fulfilled(v) : v \in SuccessValues } \cup { Rejected(e) : e \in FailureValues }

\* Concurrent invocations work on independent operations: each has a value
\* and an error of its own ("first", "second", "third" in the tests).
OwnValue(i) == Val("string", ToString(i))
OwnError(i) == Val("error", ToString(i))
OwnSettlements(i) == { Fulfilled(OwnValue(i)), Rejected(OwnError(i)) }

VARIABLES
    promise,          \* the input promise of each invocation
    called,           \* whether promiseTuple was invoked on it
    successCallback,  \* the successCallback argument
    failureCallback,  \* the failureCallback argument
    thenPromise,      \* promise.then(...)
    catchPromise,     \* promise.then(...).catch(...)
    returned,         \* the promise the async function returns
    adopting,         \* returned is subscribed to catchPromise
    successCalls,     \* times successCallback was invoked
    failureCalls,     \* times failureCallback was invoked
    jobs              \* the microtask queue

vars == << promise, called, successCallback, failureCallback, thenPromise,
           catchPromise, returned, adopting, successCalls, failureCalls, jobs >>

Job(kind, i) == [kind |-> kind, call |-> i]

\* Variant of InvokeOptional that guards the callback with try/catch.
InvokeOptionalSwallows(cb) ==
    CASE cb.kind = "omitted" -> [threw |-> FALSE, val |-> Undefined, calls |-> 0]
      [] cb.kind = "returns" -> [threw |-> FALSE, val |-> cb.val, calls |-> 1]
      [] cb.kind = "throws" -> [threw |-> FALSE, val |-> Undefined, calls |-> 1]

\* cb?.() : nothing happens when cb is omitted; otherwise cb is invoked
\* once and completes by returning a value or by throwing one.
InvokeOptional(cb) ==
    CASE cb.kind = "omitted" -> [threw |-> FALSE, val |-> Undefined, calls |-> 0]
      [] cb.kind = "returns" -> [threw |-> FALSE, val |-> cb.val, calls |-> 1]
      [] cb.kind = "throws" -> [threw |-> TRUE, val |-> cb.val, calls |-> 1]

\* JavaScript's falsy values.
Falsy(v) == v.kind \in {"undefined", "null"} \/ v.id \in {"0", "", "false"}

\* Variant of OnFulfilled that decides success by the truthiness of the result.
OnFulfilledTruthy(result, cb) ==
    LET c == InvokeOptional(cb) IN
    [settle |-> IF c.threw THEN Rejected(c.val)
                ELSE IF Falsy(result) THEN Fulfilled(Tuple(result, Undefined))
                ELSE Fulfilled(Tuple(Undefined, result)),
     calls |-> c.calls]

\* Variant of OnFulfilled that keeps what the callback returns when it is
\* truthy (successCallback?.() || [undefined, result]).
OnFulfilledUsesReturn(result, cb) ==
    LET c == InvokeOptional(cb) IN
    [settle |-> IF c.threw THEN Rejected(c.val)
                ELSE IF c.calls > 0 /\ ~Falsy(c.val) THEN Fulfilled(c.val)
                ELSE Fulfilled(Tuple(Undefined, result)),
     calls |-> c.calls]

\* Variant of OnFulfilled that invokes the callback before and after
\* building the tuple.
OnFulfilledCallsTwice(result, cb) ==
    LET c == InvokeOptional(cb) IN
    [settle |-> IF c.threw THEN Rejected(c.val)
                ELSE Fulfilled(Tuple(Undefined, result)),
     calls |-> c.calls + c.calls]

\* (result) => (successCallback?.(), [undefined, result])
\* The comma operator drops what the callback returns; a throw leaves the
\* handler, which rejects the promise the handler settles.
OnFulfilled(result, cb) ==
    LET c == InvokeOptional(cb) IN
    [settle |-> IF c.threw THEN Rejected(c.val)
                ELSE Fulfilled(Tuple(Undefined, result)),
     calls |-> c.calls]

\* Variant of OnRejected that rethrows the error after the callback.
OnRejectedRethrows(error, cb) ==
    LET c == InvokeOptional(cb) IN
    [settle |-> IF c.threw THEN Rejected(c.val) ELSE Rejected(error),
     calls |-> c.calls]

\* Variant of OnRejected that wraps a non-Error failure value in an Error.
OnRejectedWraps(error, cb) ==
    LET c == InvokeOptional(cb) IN
    [settle |-> IF c.threw THEN Rejected(c.val)
                ELSE IF error.kind = "error" THEN Fulfilled(Tuple(error, Undefined))
                ELSE Fulfilled(Tuple(Val("error", "wrapped"), Undefined)),
     calls |-> c.calls]

\* Variant of OnRejected that fills both slots.
OnRejectedBothSlots(error, cb) ==
    LET c == InvokeOptional(cb) IN
    [settle |-> IF c.threw THEN Rejected(c.val)
                ELSE Fulfilled(Tuple(error, error)),
     calls |-> c.calls]

\* (error) => (failureCallback?.(), [error, undefined])
OnRejected(error, cb) ==
    LET c == InvokeOptional(cb) IN
    [settle |-> IF c.threw THEN Rejected(c.val)
                ELSE Fulfilled(Tuple(error, Undefined)),
     calls |-> c.calls]

Init ==
    /\ promise = [i \in Calls |-> Pending]
    /\ called = [i \in Calls |-> FALSE]
    /\ successCallback = [i \in Calls |-> Omitted]
    /\ failureCallback = [i \in Calls |-> Omitted]
    /\ thenPromise = [i \in Calls |-> Pending]
    /\ catchPromise = [i \in Calls |-> Pending]
    /\ returned = [i \in Calls |-> Pending]
    /\ adopting = [i \in Calls |-> FALSE]
    /\ successCalls = [i \in Calls |-> 0]
    /\ failureCalls = [i \in Calls |-> 0]
    /\ jobs = <<>>

\* The input promise settles (the caller's asynchronous operation ends).
SettleInput(i, s) ==
    /\ promise[i].state = "pending"
    /\ promise' = [promise EXCEPT ![i] = s]
    /\ jobs' = IF called[i] THEN Append(jobs, Job("then", i)) ELSE jobs
    /\ UNCHANGED << called, successCallback, failureCallback, thenPromise,
                    catchPromise, returned, adopting, successCalls, failureCalls >>

\* Variant of PromiseTuple that returns a promise nothing is subscribed to
\* (the chain is built but the async function never resolves with it).
PromiseTupleUnsubscribed(i, scb, fcb) ==
    /\ ~called[i]
    /\ called' = [called EXCEPT ![i] = TRUE]
    /\ successCallback' = [successCallback EXCEPT ![i] = scb]
    /\ failureCallback' = [failureCallback EXCEPT ![i] = fcb]
    /\ jobs' = IF promise[i].state = "pending" THEN jobs
               ELSE Append(jobs, Job("then", i))
    /\ UNCHANGED << promise, thenPromise, catchPromise, returned, adopting,
                    successCalls, failureCalls >>

\* Variant of PromiseTuple that invokes successCallback during the call
\* (successCallback() passed to .then instead of a handler that calls it).
PromiseTupleEager(i, scb, fcb) ==
    /\ ~called[i]
    /\ called' = [called EXCEPT ![i] = TRUE]
    /\ successCallback' = [successCallback EXCEPT ![i] = scb]
    /\ failureCallback' = [failureCallback EXCEPT ![i] = fcb]
    /\ successCalls' = [successCalls EXCEPT ![i] = @ + InvokeOptional(scb).calls]
    /\ jobs' = (IF promise[i].state = "pending" THEN jobs
                ELSE Append(jobs, Job("then", i))) \o << Job("resolveThenable", i) >>
    /\ UNCHANGED << promise, thenPromise, catchPromise, returned, adopting,
                    failureCalls >>

\* promiseTuple(promise, scb, fcb): the synchronous part of the call.
\* .then registers its reaction (a job at once when the input is settled),
\* .catch registers on the still pending thenPromise, and returning the
\* chain from the async function queues the job that subscribes `returned`.
PromiseTuple(i, scb, fcb) ==
    /\ ~called[i]
    /\ called' = [called EXCEPT ![i] = TRUE]
    /\ successCallback' = [successCallback EXCEPT ![i] = scb]
    /\ failureCallback' = [failureCallback EXCEPT ![i] = fcb]
    /\ jobs' = (IF promise[i].state = "pending" THEN jobs
                ELSE Append(jobs, Job("then", i))) \o << Job("resolveThenable", i) >>
    /\ UNCHANGED << promise, thenPromise, catchPromise, returned, adopting,
                    successCalls, failureCalls >>

\* Variant of ThenReaction that reads the result from a variable shared by
\* all invocations (the first input that settled).
ThenReactionShared(i) ==
    LET j == CHOOSE k \in Calls : promise[k].state /= "pending" IN
    IF promise[j].state = "fulfilled"
    THEN OnFulfilled(promise[j].value, successCallback[i])
    ELSE [settle |-> Rejected(promise[j].value), calls |-> 0]

\* The reaction of .then(onFulfilled): with no onRejected, a rejection of
\* the input passes through to thenPromise.
ThenReaction(i) ==
    IF promise[i].state = "fulfilled"
    THEN OnFulfilled(promise[i].value, successCallback[i])
    ELSE [settle |-> Rejected(promise[i].value), calls |-> 0]

\* Variant of CatchReaction for the two-argument form .then(h1, h2): the
\* rejection handler sees only a rejection of the input, not what h1 throws.
CatchReactionTwoArgThen(i) ==
    IF promise[i].state = "rejected"
    THEN OnRejected(thenPromise[i].value, failureCallback[i])
    ELSE [settle |-> thenPromise[i], calls |-> 0]

\* Variant of CatchReaction whose handler lets the error through when no
\* failureCallback was given.
CatchReactionRethrows(i) ==
    IF thenPromise[i].state = "rejected" /\ failureCallback[i].kind = "omitted"
    THEN [settle |-> Rejected(thenPromise[i].value), calls |-> 0]
    ELSE IF thenPromise[i].state = "rejected"
    THEN OnRejected(thenPromise[i].value, failureCallback[i])
    ELSE [settle |-> Fulfilled(thenPromise[i].value), calls |-> 0]

\* The reaction of .catch(onRejected): a fulfilment of thenPromise passes
\* through to catchPromise.
CatchReaction(i) ==
    IF thenPromise[i].state = "rejected"
    THEN OnRejected(thenPromise[i].value, failureCallback[i])
    ELSE [settle |-> Fulfilled(thenPromise[i].value), calls |-> 0]

\* Variant of RunThenJob in which the then handler settles the returned
\* promise itself (a hand-made promise resolved from both handlers, with no
\* settle-once guard).
RunThenJobSettlesReturned ==
    /\ jobs /= <<>>
    /\ Head(jobs).kind = "then"
    /\ LET i == Head(jobs).call IN
        /\ thenPromise' = [thenPromise EXCEPT ![i] = ThenReaction(i).settle]
        /\ returned' = [returned EXCEPT ![i] = ThenReaction(i).settle]
        /\ successCalls' = [successCalls EXCEPT ![i] = @ + ThenReaction(i).calls]
        /\ jobs' = Append(Tail(jobs), Job("catch", i))
    /\ UNCHANGED << promise, called, successCallback, failureCallback,
                    catchPromise, adopting, failureCalls >>

RunThenJob ==
    /\ jobs /= <<>>
    /\ Head(jobs).kind = "then"
    /\ LET i == Head(jobs).call IN
        /\ thenPromise' = [thenPromise EXCEPT ![i] = ThenReaction(i).settle]
        /\ successCalls' = [successCalls EXCEPT ![i] = @ + ThenReaction(i).calls]
        /\ jobs' = Append(Tail(jobs), Job("catch", i))
    /\ UNCHANGED << promise, called, successCallback, failureCallback,
                    catchPromise, returned, adopting, failureCalls >>

RunCatchJob ==
    /\ jobs /= <<>>
    /\ Head(jobs).kind = "catch"
    /\ LET i == Head(jobs).call IN
        /\ catchPromise' = [catchPromise EXCEPT ![i] = CatchReaction(i).settle]
        /\ failureCalls' = [failureCalls EXCEPT ![i] = @ + CatchReaction(i).calls]
        /\ jobs' = IF adopting[i] THEN Append(Tail(jobs), Job("return", i))
                   ELSE Tail(jobs)
    /\ UNCHANGED << promise, called, successCallback, failureCallback,
                    thenPromise, returned, adopting, successCalls >>

\* The async function's promise was resolved with the chain (a thenable):
\* this job calls chain.then(resolve, reject).
RunResolveThenableJob ==
    /\ jobs /= <<>>
    /\ Head(jobs).kind = "resolveThenable"
    /\ LET i == Head(jobs).call IN
        /\ adopting' = [adopting EXCEPT ![i] = TRUE]
        /\ jobs' = IF catchPromise[i].state = "pending" THEN Tail(jobs)
                   ELSE Append(Tail(jobs), Job("return", i))
    /\ UNCHANGED << promise, called, successCallback, failureCallback,
                    thenPromise, catchPromise, returned, successCalls,
                    failureCalls >>

\* `returned` takes the settlement of the chain.
RunReturnJob ==
    /\ jobs /= <<>>
    /\ Head(jobs).kind = "return"
    /\ LET i == Head(jobs).call IN
        /\ returned' = [returned EXCEPT ![i] = catchPromise[i]]
        /\ jobs' = Tail(jobs)
    /\ UNCHANGED << promise, called, successCallback, failureCallback,
                    thenPromise, catchPromise, adopting, successCalls,
                    failureCalls >>

\* One invocation, on an input that settles with any of the values.
Next ==
    \/ \E s \in Settlements : SettleInput(1, s)
    \/ \E scb \in SuccessCallbacks, fcb \in FailureCallbacks :
          PromiseTuple(1, scb, fcb)
    \/ RunThenJob
    \/ RunCatchJob
    \/ RunResolveThenableJob
    \/ RunReturnJob

Spec == Init /\ [][Next]_vars

\* NumCalls invocations in flight together, each on its own operation.
NextPar ==
    \/ \E i \in Calls : \E s \in OwnSettlements(i) : SettleInput(i, s)
    \/ \E i \in Calls, scb \in NormalCallbacks, fcb \in NormalCallbacks :
          PromiseTuple(i, scb, fcb)
    \/ RunThenJob
    \/ RunCatchJob
    \/ RunResolveThenableJob
    \/ RunReturnJob

SpecPar == Init /\ [][NextPar]_vars

\* The host runs the microtask queue until it is empty: a queued job is
\* eventually run.  Nothing obliges the input to settle or the call to be made.
Fairness ==
    /\ WF_vars(RunThenJob)
    /\ WF_vars(RunCatchJob)
    /\ WF_vars(RunResolveThenableJob)
    /\ WF_vars(RunReturnJob)

SpecFair == Init /\ [][Next]_vars /\ Fairness

(***************************************************************************)
(* Properties.                                                             *)
(***************************************************************************)
IsTuple(v) == v.kind = "array" /\ Len(v.elems) = 2
ErrorSlot(i) == returned[i].value.elems[1]
ValueSlot(i) == returned[i].value.elems[2]

\* Neither callback of invocation i throws (each is omitted or returns).
CallbacksNormal(i) ==
    successCallback[i].kind /= "throws" /\ failureCallback[i].kind /= "throws"

\* Invocation i has nothing left to run: it was called, its input settled
\* and none of its jobs is queued.
Finished(i) ==
    /\ called[i]
    /\ promise[i].state /= "pending"
    /\ \A k \in 1 .. Len(jobs) : jobs[k].call /= i

\* C1: with callbacks omitted or returning normally, whatever the input
\* settles with, the returned promise is never rejected; it is fulfilled
\* with an array of two elements once the invocation has run to its end.
C1_NeverRejected ==
    \A i \in Calls :
        (called[i] /\ CallbacksNormal(i)) =>
            /\ returned[i].state /= "rejected"
            /\ returned[i].state = "fulfilled" => IsTuple(returned[i].value)
            /\ Finished(i) => returned[i].state = "fulfilled"

\* C1 witness: an input rejected with a string, the returned promise fulfilled.
C1_Witness ==
    \E i \in Calls :
        /\ CallbacksNormal(i)
        /\ promise[i] = Rejected(Val("string", "string error"))
        /\ returned[i].state = "fulfilled"

\* C2: an input fulfilled with v, falsy values and undefined included, gives
\* exactly [undefined, v] when no callback throws.
C2_SuccessTuple ==
    \A i \in Calls :
        (called[i] /\ CallbacksNormal(i) /\ promise[i].state = "fulfilled") =>
            /\ returned[i].state /= "pending" =>
                  returned[i] = Fulfilled(Tuple(Undefined, promise[i].value))
            /\ Finished(i) => returned[i].state /= "pending"

\* C2 witness: the input fulfilled with 0 and the tuple [undefined, 0] returned.
C2_Witness ==
    \E i \in Calls :
        /\ promise[i] = Fulfilled(Val("number", "0"))
        /\ returned[i] = Fulfilled(Tuple(Undefined, Val("number", "0")))

\* C3: an input rejected with e gives exactly [e, undefined], e itself and
\* not a wrapper, when failureCallback is omitted or returns normally.
C3_FailureTuple ==
    \A i \in Calls :
        (called[i] /\ failureCallback[i].kind /= "throws"
                   /\ promise[i].state = "rejected") =>
            /\ returned[i].state /= "pending" =>
                  returned[i] = Fulfilled(Tuple(promise[i].value, Undefined))
            /\ Finished(i) => returned[i].state /= "pending"

\* C3 witness: the input rejected with the number 42 and [42, undefined] returned.
C3_Witness ==
    \E i \in Calls :
        /\ promise[i] = Rejected(Val("number", "42"))
        /\ returned[i] = Fulfilled(Tuple(Val("number", "42"), Undefined))

BothProvided(i) ==
    successCallback[i].kind /= "omitted" /\ failureCallback[i].kind /= "omitted"

\* C5: with both callbacks provided, whether they return or throw,
\* successCallback is invoked only if the input fulfilled and failureCallback
\* only if it rejected, never both; and once the returned promise is settled
\* the callback matching the outcome has been invoked.
C5_CallbackExclusivity ==
    \A i \in Calls :
        (called[i] /\ BothProvided(i)) =>
            /\ successCalls[i] > 0 => promise[i].state = "fulfilled"
            /\ failureCalls[i] > 0 => promise[i].state = "rejected"
            /\ ~(successCalls[i] > 0 /\ failureCalls[i] > 0)
            /\ returned[i].state /= "pending" =>
                  /\ promise[i].state = "fulfilled" => successCalls[i] > 0
                  /\ promise[i].state = "rejected" => failureCalls[i] > 0

\* C6: when the input fulfils and successCallback throws x, the returned
\* promise, once settled, is rejected with x.
C6_SuccessThrowPropagates ==
    \A i \in Calls :
        (called[i] /\ promise[i].state = "fulfilled"
                   /\ successCallback[i].kind = "throws"
                   /\ returned[i].state /= "pending") =>
            returned[i] = Rejected(successCallback[i].val)

\* C7: when the input rejects with e and failureCallback throws y, the
\* returned promise is rejected with y: no tuple, and e is not delivered.
C7_FailureThrowPropagates ==
    \A i \in Calls :
        (called[i] /\ promise[i].state = "rejected"
                   /\ failureCallback[i].kind = "throws") =>
            /\ returned[i].state /= "pending" =>
                  returned[i] = Rejected(failureCallback[i].val)
            /\ Finished(i) => returned[i].state /= "pending"

\* C7 witness: the input rejected with the test error, failureCallback
\* threw y and the returned promise is rejected with y.
C7_Witness ==
    \E i \in Calls :
        /\ promise[i] = Rejected(Val("error", "testError"))
        /\ failureCalls[i] = 1
        /\ returned[i] = Rejected(FailureThrown)

\* C8: the returned promise is rejected only if a callback was invoked and
\* threw, and then the reason is the value that callback threw.
C8_RejectedOnlyByCallback ==
    \A i \in Calls :
        returned[i].state = "rejected" =>
            \/ /\ successCallback[i].kind = "throws"
               /\ successCalls[i] > 0
               /\ returned[i].value = successCallback[i].val
            \/ /\ failureCallback[i].kind = "throws"
               /\ failureCalls[i] > 0
               /\ returned[i].value = failureCallback[i].val

\* C8 witness: a returned promise rejected although the input fulfilled
\* (successCallback threw, then failureCallback threw).
C8_Witness ==
    \E i \in Calls :
        /\ promise[i].state = "fulfilled"
        /\ returned[i].state = "rejected"

\* C9: once the invocation is over, the provided callback that matches the
\* input's outcome has been invoked exactly once; it is never invoked more
\* than once.
C9_MatchingCallbackOnce ==
    \A i \in Calls :
        /\ successCalls[i] <= 1
        /\ failureCalls[i] <= 1
        /\ (called[i] /\ returned[i].state /= "pending") =>
              /\ (promise[i].state = "fulfilled"
                     /\ successCallback[i].kind /= "omitted") => successCalls[i] = 1
              /\ (promise[i].state = "rejected"
                     /\ failureCallback[i].kind /= "omitted") => failureCalls[i] = 1

\* C9 witness: an invocation that is over, whose input fulfilled and whose
\* successCallback ran once.
C9_Witness ==
    \E i \in Calls :
        /\ promise[i].state = "fulfilled"
        /\ successCallback[i].kind = "returns"
        /\ returned[i].state = "fulfilled"
        /\ successCalls[i] = 1

\* The tuple that invocation i's own input determines.
OwnTuple(i) ==
    IF promise[i].state = "fulfilled"
    THEN Tuple(Undefined, promise[i].value)
    ELSE Tuple(promise[i].value, Undefined)

\* C10: with several invocations in flight and their settlements and jobs
\* interleaved in every way, each returned promise fulfils with the tuple of
\* its own input, each invocation invokes only its own callbacks (the one
\* matching its own outcome, if provided), and an invocation that has
\* nothing left to run has fulfilled.
C10_Independence ==
    \A i \in Calls :
        /\ returned[i].state /= "pending" =>
              /\ promise[i].state /= "pending"
              /\ returned[i] = Fulfilled(OwnTuple(i))
        /\ thenPromise[i].state = "pending" => successCalls[i] = 0
        /\ catchPromise[i].state = "pending" => failureCalls[i] = 0
        /\ thenPromise[i].state /= "pending" =>
              successCalls[i] =
                  (IF promise[i].state = "fulfilled"
                       /\ successCallback[i].kind /= "omitted" THEN 1 ELSE 0)
        /\ catchPromise[i].state /= "pending" =>
              failureCalls[i] =
                  (IF promise[i].state = "rejected"
                       /\ failureCallback[i].kind /= "omitted" THEN 1 ELSE 0)
        /\ Finished(i) => returned[i].state = "fulfilled"

\* C10 witness: two invocations of the same run, one on an input that
\* fulfilled and one on an input that rejected, each returned the tuple of
\* its own input and invoked only its own matching callback.
C10_Witness ==
    \E i \in Calls, j \in Calls :
        /\ i /= j
        /\ returned[i] = Fulfilled(Tuple(Undefined, OwnValue(i)))
        /\ returned[j] = Fulfilled(Tuple(OwnError(j), Undefined))
        /\ successCalls[i] = 1
        /\ failureCalls[j] = 1
        /\ successCalls[j] = 0
        /\ failureCalls[i] = 0

\* The callback matching the outcome of invocation i's input has run, or
\* was not provided.
MatchingCallbackRan(i) ==
    /\ (promise[i].state = "fulfilled" /\ successCallback[i].kind /= "omitted")
          => successCalls[i] > 0
    /\ (promise[i].state = "rejected" /\ failureCallback[i].kind /= "omitted")
          => failureCalls[i] > 0

\* C11: within one invocation the input settles first, then the matching
\* callback runs, then the returned promise settles: while the input is
\* pending no callback has been invoked and nothing of the chain is settled,
\* and the handler's promise and the returned promise are settled only
\* after the matching callback (if provided) has run.
C11_EventOrder ==
    \A i \in Calls :
        /\ promise[i].state = "pending" =>
              /\ successCalls[i] = 0 /\ failureCalls[i] = 0
              /\ thenPromise[i].state = "pending"
              /\ catchPromise[i].state = "pending"
              /\ returned[i].state = "pending"
        /\ catchPromise[i].state /= "pending" => MatchingCallbackRan(i)
        /\ returned[i].state /= "pending" =>
              catchPromise[i].state /= "pending" /\ MatchingCallbackRan(i)

\* C11 witness: the matching callback has run and the chain is settled while
\* the returned promise is still pending (its job is queued).
C11_Witness ==
    \E i \in Calls :
        /\ promise[i].state = "fulfilled"
        /\ successCallback[i].kind = "returns"
        /\ successCalls[i] = 1
        /\ catchPromise[i].state = "fulfilled"
        /\ returned[i].state = "pending"
        /\ jobs = << Job("return", i) >>

\* C12: promiseTuple has no timeout: as long as the input is pending the
\* returned promise is pending, and once the invocation's input has settled
\* the returned promise eventually settles (the job queue being processed).
C12_NoTimeout ==
    \A i \in Calls :
        /\ [](promise[i].state = "pending" => returned[i].state = "pending")
        /\ (called[i] /\ promise[i].state /= "pending")
              ~> (returned[i].state /= "pending")

\* C12 witness: the input of an invocation settled and its returned promise
\* settled after it, with nothing left in the queue.
C12_Witness ==
    \E i \in Calls :
        /\ called[i]
        /\ promise[i] = Rejected(Val("object", "customError"))
        /\ returned[i].state /= "pending"
        /\ jobs = <<>>

\* C13: the tuple does not depend on the callbacks: whether each callback is
\* omitted or returns normally, and whatever it returns, the returned
\* promise fulfils with the tuple its input alone determines; an omitted
\* callback is never invoked and causes no rejection.
C13_CallbacksDoNotShapeTuple ==
    \A i \in Calls :
        /\ successCallback[i].kind = "omitted" => successCalls[i] = 0
        /\ failureCallback[i].kind = "omitted" => failureCalls[i] = 0
        /\ (called[i] /\ CallbacksNormal(i)) =>
              /\ thenPromise[i].state = "rejected" => promise[i].state = "rejected"
              /\ catchPromise[i].state /= "rejected"
              /\ returned[i].state /= "pending" =>
                    returned[i] = Fulfilled(OwnTuple(i))

\* C13 witness: successCallback returned the number 1, failureCallback was
\* omitted, and the tuple is the one of the input.
C13_Witness ==
    \E i \in Calls :
        /\ successCallback[i] = Returns(Val("number", "1"))
        /\ failureCallback[i] = Omitted
        /\ successCalls[i] = 1
        /\ promise[i] = Fulfilled(Val("string", "success"))
        /\ returned[i] = Fulfilled(Tuple(Undefined, Val("string", "success")))

\* C14: an invocation only moves from pending to one terminal state: once
\* the returned promise (or a promise of its chain) is settled, no step
\* changes its state, its tuple or its rejection reason, whatever the
\* callbacks do.
C14_SettlesOnce ==
    [][\A i \in Calls :
          /\ returned[i].state /= "pending" => returned'[i] = returned[i]
          /\ thenPromise[i].state /= "pending" => thenPromise'[i] = thenPromise[i]
          /\ catchPromise[i].state /= "pending" => catchPromise'[i] = catchPromise[i]]_vars

\* C14 witness: an invocation whose successCallback threw has reached its
\* terminal state and has nothing left to run.
C14_Witness ==
    \E i \in Calls :
        /\ successCallback[i].kind = "throws"
        /\ successCalls[i] = 1
        /\ returned[i].state /= "pending"
        /\ Finished(i)

====
